---- MODULE Spec2Model ----
(***************************************************************************)
(* Model of fabfile.py: the Fabric tasks that deploy a Django project to   *)
(* Heroku.  One behaviour is one `fab <task>` run (or one call of the      *)
(* helper cont with arbitrary arguments).  Every external command's        *)
(* outcome and every operator answer is an input chosen by \E.             *)
(*                                                                         *)
(* Commands and questions are strings.  A format template is the sequence  *)
(* of its pieces, a replacement field such as {app} being a piece of its   *)
(* own; format substitutes the fields it has a keyword for and joins.      *)
(***************************************************************************)
EXTENDS Integers, Sequences, FiniteSets, TLC

VARIABLES
    task,        \* the name of the function being run
    app,         \* its app argument (None when absent)
    cmd,         \* cont's cmd argument when cont itself is the entry point
    message,     \* cont's message argument when cont itself is the entry point
    pc,          \* index of the next statement in Body(task)
    i,           \* index of the next catalog entry inside a for loop
    status,      \* "running", "done" (returned) or "abort" (SystemExit)
    exit_code,   \* process exit status once the run has ended
    abort_msg,   \* the message given to abort(), "" when none
    issued,      \* the commands handed to local() so far, in order
    asked,       \* how many times confirm() has been called
    failures,    \* how many commands have reported failure
    unwrapped_failed, \* some local() outside cont has failed
    last         \* the most recent local() call and what followed it

vars == <<task, app, cmd, message, pc, i, status, exit_code, abort_msg,
          issued, asked, failures, unwrapped_failed, last>>

----------------------------------------------------------------------------
(* Inputs *)

\* Python's None, for an argument left at its default.
None == "<None>"

\* The app arguments tried: absent, empty, explicit.
AppArgs == {None, "", "myapp", "blog"}

\* Commands and questions handed to cont when it is called on its own.
ContCmds == {"heroku ps", "make test", "git status"}
ContMessages == {None, "", "Continue?", "Couldn't complete git status. Continue anyway?"}

\* Python truthiness of an optional string.
Truthy(s) == s # None /\ s # ""

----------------------------------------------------------------------------
(* GLOBALS *)

env_run == "heroku run python manage.py"

env == ("{run}" :> env_run)

HEROKU_ADDONS == <<
    "cloudamqp:lemur",
    "heroku-postgresql:dev",
    "scheduler:standard",
    "memcachier:dev",
    "newrelic:standard",
    "pgbackups:auto-month",
    "sentry:developer" >>

HEROKU_CONFIGS == <<
    "BUILDPACK_URL=https://github.com/jbarone/heroku-buildpack-python-plus",
    "DJANGO_SETTINGS_MODULE={{ project_name }}.settings.prod",
    "SECRET_KEY=\"{{ secret_key }}\"",
    "AWS_ACCESS_KEY_ID=xxx",
    "AWS_SECRET_ACCESS_KEY=xxx",
    "AWS_STORAGE_BUCKET_NAME={{ project_name }}" >>

----------------------------------------------------------------------------
(* str.format: replace every field the keywords name, keep the other      *)
(* pieces, join.  Keywords without a field in the template are ignored.   *)

RECURSIVE format(_, _)
format(template, kwargs) ==
    IF template = <<>> THEN ""
    ELSE LET piece == Head(template)
         IN (IF piece \in DOMAIN kwargs THEN kwargs[piece] ELSE piece)
            \o format(Tail(template), kwargs)

----------------------------------------------------------------------------
(* Command and question strings built by the tasks *)

syncdb_cmd == format(<<"{run}", " syncdb --noinput">>, env)

migrate_cmd(a) ==
    IF Truthy(a)
    THEN format(<<"{run}", " migrate ", "{app}", " --noinput">>, ("{app}" :> a) @@ env)
    ELSE format(<<"{run}", " migrate --noinput">>, env)

collectstatic_cmd == format(<<"{run}", " collectstatic --noinput">>, env)

compress_cmd == format(<<"{run}", " compress">>, env)

push_cmd == "git push heroku master"
push_message == "Couldn't push your application to Heroku, continue anyway?"

newrelic_cmd == format(<<"{run}", " newrelic-admin validate-config - stdout">>, env)
newrelic_message == "Couldn't initialize New Relic, continue anyway?"

bootstrap_app(a) == IF ~Truthy(a) THEN "{{ project_name}}" ELSE a

create_cmd(a) == format(<<"heroku apps:create ", "{app}">>, ("{app}" :> bootstrap_app(a)))
create_message == "Couldn't create the Heroku app, continue anyway?"

addon_cmd(addon) == format(<<"heroku addons:add ", "{addon}">>, ("{addon}" :> addon))
addon_message(addon) ==
    format(<<"Couldn't add ", "{addon}", " to your Heroku app, continue anyway?">>,
           ("{addon}" :> addon))

config_cmd(config) == format(<<"heroku config:add config">>, ("{config}" :> config))
config_message(config) ==
    format(<<"Couldn't add config to your Heroku app, continue anyway?">>,
           ("{config}" :> config))

destroy_app(a) == IF ~Truthy(a) THEN "{{ project_name }}" ELSE a

destroy_cmd(a) == format(<<"heroku apps:destroy --app ", "{app}">>, ("{app}" :> destroy_app(a)))

----------------------------------------------------------------------------
(* Running a command *)

user_abort_msg == "Stopped execution per user request."
local_abort_msg == "local() encountered an error"

\* local(c) when the command reports ok: the result, and whether Fabric
\* aborts the run (it does on failure unless warn_only is set).
local(c, warn_only, ok) ==
    [cmd |-> c, failed |-> ~ok, aborted |-> ~ok /\ ~warn_only]

\* direct with the failure downgraded to a warning.
direct_warn_only(c, ok) ==
    LET result == local(c, TRUE, ok)
    IN [cmd |-> c, wrapped |-> FALSE, message |-> None,
        failed |-> result.failed, prompted |-> FALSE, question |-> None,
        accepted |-> FALSE, aborted |-> result.aborted,
        abort_msg |-> IF result.aborted THEN local_abort_msg ELSE ""]

\* A call of local() straight from a task body.
direct(c, ok) ==
    LET result == local(c, FALSE, ok)
    IN [cmd |-> c, wrapped |-> FALSE, message |-> None,
        failed |-> result.failed, prompted |-> FALSE, question |-> None,
        accepted |-> FALSE, aborted |-> result.aborted,
        abort_msg |-> IF result.aborted THEN local_abort_msg ELSE ""]

\* cont without the result.failed test.
cont_always_asks(c, m, ok, yes) ==
    LET result == local(c, TRUE, ok)
        prompted == Truthy(m)
        stop == prompted /\ ~yes
    IN [cmd |-> c, wrapped |-> TRUE, message |-> m,
        failed |-> result.failed, prompted |-> prompted,
        question |-> IF prompted THEN m ELSE None,
        accepted |-> prompted /\ yes, aborted |-> stop,
        abort_msg |-> IF stop THEN user_abort_msg ELSE ""]

\* cont without the negation of confirm.
cont_inverted(c, m, ok, yes) ==
    LET result == local(c, TRUE, ok)
        prompted == Truthy(m) /\ result.failed
        stop == prompted /\ yes
    IN [cmd |-> c, wrapped |-> TRUE, message |-> m,
        failed |-> result.failed, prompted |-> prompted,
        question |-> IF prompted THEN m ELSE None,
        accepted |-> prompted /\ yes, aborted |-> stop,
        abort_msg |-> IF stop THEN user_abort_msg ELSE ""]

\* cont without the message test.
cont_ignores_message(c, m, ok, yes) ==
    LET result == local(c, TRUE, ok)
        prompted == result.failed
        stop == prompted /\ ~yes
    IN [cmd |-> c, wrapped |-> TRUE, message |-> m,
        failed |-> result.failed, prompted |-> prompted,
        question |-> IF prompted THEN m ELSE None,
        accepted |-> prompted /\ yes, aborted |-> stop,
        abort_msg |-> IF stop THEN user_abort_msg ELSE ""]

\* cont without the call of abort.
cont_never_aborts(c, m, ok, yes) ==
    LET result == local(c, TRUE, ok)
        prompted == Truthy(m) /\ result.failed
        stop == FALSE
    IN [cmd |-> c, wrapped |-> TRUE, message |-> m,
        failed |-> result.failed, prompted |-> prompted,
        question |-> IF prompted THEN m ELSE None,
        accepted |-> prompted /\ yes, aborted |-> stop,
        abort_msg |-> IF stop THEN user_abort_msg ELSE ""]

\* cont(c, m): yes is the operator's answer, read only if confirm is called.
cont(c, m, ok, yes) ==
    LET result == local(c, TRUE, ok)
        prompted == Truthy(m) /\ result.failed
        stop == prompted /\ ~yes
    IN [cmd |-> c, wrapped |-> TRUE, message |-> m,
        failed |-> result.failed, prompted |-> prompted,
        question |-> IF prompted THEN m ELSE None,
        accepted |-> prompted /\ yes, aborted |-> stop,
        abort_msg |-> IF stop THEN user_abort_msg ELSE ""]

----------------------------------------------------------------------------
(* Task bodies: the statements of each function, in source order *)

\* update with migrate ahead of syncdb.
Body_migrate_first(t) ==
    CASE t = "cont"          -> <<"cont">>
      [] t = "syncdb"        -> <<"syncdb">>
      [] t = "migrate"       -> <<"migrate">>
      [] t = "collectstatic" -> <<"collectstatic">>
      [] t = "compress"      -> <<"compress">>
      [] t = "update"        -> <<"push", "migrate", "syncdb", "collectstatic",
                                  "compress", "newrelic">>
      [] t = "bootstrap"     -> <<"create", "addons", "configs", "push", "syncdb",
                                  "migrate", "collectstatic", "compress", "newrelic">>
      [] t = "destroy"       -> <<"destroy">>

\* bootstrap with the code push after the database sync.
Body_push_late(t) ==
    CASE t = "cont"          -> <<"cont">>
      [] t = "syncdb"        -> <<"syncdb">>
      [] t = "migrate"       -> <<"migrate">>
      [] t = "collectstatic" -> <<"collectstatic">>
      [] t = "compress"      -> <<"compress">>
      [] t = "update"        -> <<"push", "syncdb", "migrate", "collectstatic",
                                  "compress", "newrelic">>
      [] t = "bootstrap"     -> <<"create", "addons", "configs", "syncdb", "push",
                                  "migrate", "collectstatic", "compress", "newrelic">>
      [] t = "destroy"       -> <<"destroy">>

Body(t) ==
    CASE t = "cont"          -> <<"cont">>
      [] t = "syncdb"        -> <<"syncdb">>
      [] t = "migrate"       -> <<"migrate">>
      [] t = "collectstatic" -> <<"collectstatic">>
      [] t = "compress"      -> <<"compress">>
      [] t = "update"        -> <<"push", "syncdb", "migrate", "collectstatic",
                                  "compress", "newrelic">>
      [] t = "bootstrap"     -> <<"create", "addons", "configs", "push", "syncdb",
                                  "migrate", "collectstatic", "compress", "newrelic">>
      [] t = "destroy"       -> <<"destroy">>

Tasks == {"cont", "syncdb", "migrate", "collectstatic", "compress",
          "update", "bootstrap", "destroy"}

\* The tasks that take an app argument.
TakesApp == {"migrate", "bootstrap", "destroy"}

At(label) == status = "running" /\ pc <= Len(Body(task)) /\ Body(task)[pc] = label

\* The argument migrate receives: its own when it is the entry point, none
\* when update or bootstrap calls it.
migrate_arg == IF task = "migrate" THEN app ELSE None

\* The effect of one local() call e; the statement is finished when leave
\* holds (always, except inside a for loop with entries left).
Step(e, leave, nexti) ==
    LET returns == ~e.aborted /\ leave /\ pc = Len(Body(task))
    IN /\ issued' = Append(issued, e.cmd)
       /\ asked' = asked + (IF e.prompted THEN 1 ELSE 0)
       /\ failures' = failures + (IF e.failed THEN 1 ELSE 0)
       /\ unwrapped_failed' = (unwrapped_failed \/ (~e.wrapped /\ e.failed))
       /\ last' = e
       /\ status' = IF e.aborted THEN "abort" ELSE IF returns THEN "done" ELSE "running"
       /\ exit_code' = IF e.aborted THEN 1 ELSE 0
       /\ abort_msg' = e.abort_msg
       /\ pc' = IF e.aborted \/ ~leave THEN pc ELSE pc + 1
       /\ i' = IF e.aborted THEN i ELSE nexti
       /\ UNCHANGED <<task, app, cmd, message>>

NoCall == [cmd |-> "", wrapped |-> FALSE, message |-> None, failed |-> FALSE,
           prompted |-> FALSE, question |-> None, accepted |-> FALSE,
           aborted |-> FALSE, abort_msg |-> ""]

Init ==
    /\ task \in Tasks
    /\ app \in (IF task \in TakesApp THEN AppArgs ELSE {None})
    /\ cmd \in (IF task = "cont" THEN ContCmds ELSE {""})
    /\ message \in (IF task = "cont" THEN ContMessages ELSE {None})
    /\ pc = 1
    /\ i = 1
    /\ status = "running"
    /\ exit_code = 0
    /\ abort_msg = ""
    /\ issued = <<>>
    /\ asked = 0
    /\ failures = 0
    /\ unwrapped_failed = FALSE
    /\ last = NoCall

----------------------------------------------------------------------------
(* One action per statement *)

ContCall ==
    /\ At("cont")
    /\ \E ok \in BOOLEAN, yes \in BOOLEAN : Step(cont(cmd, message, ok, yes), TRUE, i)

Syncdb ==
    /\ At("syncdb")
    /\ \E ok \in BOOLEAN : Step(direct(syncdb_cmd, ok), TRUE, i)

Migrate ==
    /\ At("migrate")
    /\ \E ok \in BOOLEAN : Step(direct(migrate_cmd(migrate_arg), ok), TRUE, i)

Collectstatic ==
    /\ At("collectstatic")
    /\ \E ok \in BOOLEAN : Step(direct(collectstatic_cmd, ok), TRUE, i)

Compress ==
    /\ At("compress")
    /\ \E ok \in BOOLEAN : Step(direct(compress_cmd, ok), TRUE, i)

Push ==
    /\ At("push")
    /\ \E ok \in BOOLEAN, yes \in BOOLEAN : Step(cont(push_cmd, push_message, ok, yes), TRUE, i)

NewRelic ==
    /\ At("newrelic")
    /\ \E ok \in BOOLEAN, yes \in BOOLEAN :
          Step(cont(newrelic_cmd, newrelic_message, ok, yes), TRUE, i)

BootstrapCreate ==
    /\ At("create")
    /\ \E ok \in BOOLEAN, yes \in BOOLEAN :
          Step(cont(create_cmd(app), create_message, ok, yes), TRUE, 1)

\* The add-on loop stepping over every other entry.
BootstrapAddon_skips ==
    /\ At("addons")
    /\ \E ok \in BOOLEAN, yes \in BOOLEAN :
          Step(cont(addon_cmd(HEROKU_ADDONS[i]), addon_message(HEROKU_ADDONS[i]), ok, yes),
               i + 2 > Len(HEROKU_ADDONS),
               IF i + 2 > Len(HEROKU_ADDONS) THEN 1 ELSE i + 2)

BootstrapAddon ==
    /\ At("addons")
    /\ \E ok \in BOOLEAN, yes \in BOOLEAN :
          Step(cont(addon_cmd(HEROKU_ADDONS[i]), addon_message(HEROKU_ADDONS[i]), ok, yes),
               i = Len(HEROKU_ADDONS),
               IF i = Len(HEROKU_ADDONS) THEN 1 ELSE i + 1)

BootstrapConfig ==
    /\ At("configs")
    /\ \E ok \in BOOLEAN, yes \in BOOLEAN :
          Step(cont(config_cmd(HEROKU_CONFIGS[i]), config_message(HEROKU_CONFIGS[i]), ok, yes),
               i = Len(HEROKU_CONFIGS),
               IF i = Len(HEROKU_CONFIGS) THEN 1 ELSE i + 1)

Destroy ==
    /\ At("destroy")
    /\ \E ok \in BOOLEAN : Step(direct(destroy_cmd(app), ok), TRUE, i)

Next ==
    \/ ContCall
    \/ Syncdb
    \/ Migrate
    \/ Collectstatic
    \/ Compress
    \/ Push
    \/ NewRelic
    \/ BootstrapCreate
    \/ BootstrapAddon
    \/ BootstrapConfig
    \/ Destroy

Spec == Init /\ [][Next]_vars

----------------------------------------------------------------------------
(* Properties *)

\* A step of the run: one more command has been handed to local().
Called == Len(issued') = Len(issued) + 1

\* The caller of the last command went on: next statement or next entry.
Proceeds == status' \in {"running", "done"} /\ exit_code' = 0
            /\ (pc' = pc + 1 \/ i' = i + 1)

StartsWith(s, prefix) ==
    Len(s) >= Len(prefix) /\ SubSeq(s, 1, Len(prefix)) = prefix

Positions(P(_)) == {k \in DOMAIN issued : P(issued[k])}

IsAddonCmd(c) == StartsWith(c, "heroku addons:add ")
IsConfigCmd(c) == StartsWith(c, "heroku config:add ")

\* C1: whenever cont runs a command that succeeds, whatever the question,
\* the operator is not prompted and cont returns to its caller, which goes on.
C1_SuccessNeverPrompts ==
    [][ (Called /\ last'.wrapped /\ ~last'.failed)
          => (asked' = asked /\ ~last'.prompted /\ Proceeds) ]_vars

C1_Witness ==
    /\ task = "cont" /\ status = "done"
    /\ last.wrapped /\ ~last.failed /\ Truthy(last.message) /\ asked = 0

\* C2: whenever cont runs a command that fails and the question is
\* non-empty, the operator is prompted exactly once with that question; a
\* decline aborts the run with a non-zero exit, an accept lets the caller go on.
C2_FailureAsksOnce ==
    [][ (Called /\ last'.wrapped /\ last'.failed /\ Truthy(last'.message))
          => ( /\ asked' = asked + 1
               /\ last'.question = last'.message
               /\ last'.accepted => Proceeds
               /\ ~last'.accepted => (status' = "abort" /\ exit_code' # 0
                                      /\ abort_msg' = "Stopped execution per user request.") ) ]_vars

C2_Witness ==
    /\ task = "cont" /\ status = "abort" /\ exit_code = 1
    /\ last.wrapped /\ last.failed /\ asked = 1 /\ last.question = "Continue?"

\* C3: whenever cont runs a command that fails and the question is empty or
\* absent, no prompt occurs, the run is not aborted and the caller goes on
\* as it does after a success.
C3_NoQuestionIgnoresFailure ==
    [][ (Called /\ last'.wrapped /\ last'.failed /\ ~Truthy(last'.message))
          => (asked' = asked /\ ~last'.prompted /\ Proceeds /\ abort_msg' = "") ]_vars

C3_Witness ==
    /\ task = "cont" /\ status = "done" /\ message = ""
    /\ last.wrapped /\ last.failed /\ asked = 0 /\ failures = 1

\* C4: in update and bootstrap, once the operator has declined a prompt the
\* run is aborted and nothing more happens: no command, no prompt.
C4_DeclineIsTerminal ==
    [][ (task \in {"update", "bootstrap"} /\ last.prompted /\ ~last.accepted)
          => (status = "abort" /\ UNCHANGED <<issued, asked, pc, i, status>>) ]_vars

C4_Witness ==
    /\ task = "bootstrap" /\ status = "abort"
    /\ last.prompted /\ ~last.accepted /\ Len(issued) = 4

\* C5: in bootstrap the add-on commands are issued for the catalog entries in
\* listed order, one each, then the configuration commands, one per entry;
\* once both loops are over there are exactly 7 and then 6 of them, also
\* when some of them failed and the operator accepted.
C5_CatalogsIteratedOnce ==
    task = "bootstrap" =>
        LET A == Positions(IsAddonCmd)
            K == Positions(IsConfigCmd)
        IN /\ A = 2 .. (1 + Cardinality(A))
           /\ Cardinality(A) <= 7
           /\ \A k \in A : issued[k] = "heroku addons:add " \o HEROKU_ADDONS[k - 1]
           /\ K = 9 .. (8 + Cardinality(K))
           /\ Cardinality(K) <= 6
           /\ (pc > 3 \/ status = "done")
                 => (Cardinality(A) = 7 /\ Cardinality(K) = 6
                     /\ Len(HEROKU_ADDONS) = 7 /\ Len(HEROKU_CONFIGS) = 6)

C5_Witness ==
    /\ task = "bootstrap" /\ status = "done" /\ failures >= 3 /\ asked >= 3
    /\ Cardinality(Positions(IsAddonCmd)) = 7
    /\ Cardinality(Positions(IsConfigCmd)) = 6

\* C6: in bootstrap the n-th configuration command pushes the n-th entry of
\* the configuration catalog.
C6_ConfigCarriesEntry ==
    task = "bootstrap" =>
        \A k \in Positions(IsConfigCmd) :
            LET n == Cardinality({j \in Positions(IsConfigCmd) : j <= k})
            IN issued[k] = "heroku config:add " \o HEROKU_CONFIGS[n]

\* C7: an update in which every command succeeds issues syncdb, the
\* site-wide migrate (no app name), collectstatic and compress, each once, in
\* that order, before it is done.
C7_UpdateOrder ==
    (task = "update" /\ status = "done" /\ failures = 0) =>
        LET at(c) == {k \in DOMAIN issued : issued[k] = c}
            sync == at("heroku run python manage.py syncdb --noinput")
            mig  == at("heroku run python manage.py migrate --noinput")
            coll == at("heroku run python manage.py collectstatic --noinput")
            comp == at("heroku run python manage.py compress")
        IN /\ \A S \in {sync, mig, coll, comp} : Cardinality(S) = 1
           /\ \A a \in sync, b \in mig, c \in coll, d \in comp : a < b /\ b < c /\ c < d
           /\ \A k \in DOMAIN issued :
                 StartsWith(issued[k], "heroku run python manage.py migrate") => k \in mig

C7_Witness ==
    /\ task = "update" /\ status = "done" /\ failures = 0 /\ Len(issued) = 6

\* The place of a command in bootstrap's sequence.
Rank(c) ==
    CASE StartsWith(c, "heroku apps:create ") -> 1
      [] IsAddonCmd(c) -> 2
      [] IsConfigCmd(c) -> 3
      [] c = "git push heroku master" -> 4
      [] c = "heroku run python manage.py syncdb --noinput" -> 5
      [] StartsWith(c, "heroku run python manage.py migrate") -> 6
      [] c = "heroku run python manage.py collectstatic --noinput" -> 7
      [] c = "heroku run python manage.py compress" -> 8
      [] OTHER -> 9

\* How many commands of each place a whole bootstrap issues.
Expected == <<1, 7, 6, 1, 1, 1, 1, 1, 1>>

\* C8: in bootstrap the commands come in the order create, add-ons,
\* configurations, code push, syncdb, migrate, collectstatic, compress, and a
\* command is issued only after all the commands of every earlier place.
C8_BootstrapOrder ==
    task = "bootstrap" =>
        /\ \A j, k \in DOMAIN issued : j < k => Rank(issued[j]) <= Rank(issued[k])
        /\ \A k \in DOMAIN issued : \A r \in 1 .. (Rank(issued[k]) - 1) :
              Cardinality({j \in 1 .. (k - 1) : Rank(issued[j]) = r}) = Expected[r]

C8_Witness ==
    /\ task = "bootstrap" /\ Len(issued) >= 16
    /\ Rank(issued[16]) = 5 /\ Rank(issued[15]) = 4

\* C9: with no app name (or an empty one) destroy targets the name that
\* bootstrap creates in that case; a given name is used unchanged by both.
C9_SameDefaultName ==
    /\ (task = "destroy" /\ issued # <<>>)
          => issued[1] = "heroku apps:destroy --app " \o bootstrap_app(app)
    /\ (task = "bootstrap" /\ issued # <<>>)
          => issued[1] = "heroku apps:create " \o destroy_app(app)
    /\ (task = "destroy" /\ issued # <<>> /\ Truthy(app))
          => issued[1] = "heroku apps:destroy --app " \o app
    /\ (task = "bootstrap" /\ issued # <<>> /\ Truthy(app))
          => issued[1] = "heroku apps:create " \o app

\* C10: in update and bootstrap a failure of syncdb, migrate, collectstatic
\* or compress halts the run at once with a non-zero status, without a
\* prompt; nothing runs after the halt, and the run is done only if none of
\* them failed.
C10_UnwrappedFailureHalts ==
    [][ (task \in {"update", "bootstrap"}) =>
          ( /\ (Called /\ ~last'.wrapped /\ last'.failed)
                  => (status' = "abort" /\ exit_code' # 0 /\ asked' = asked)
            /\ (status = "abort" /\ unwrapped_failed)
                  => UNCHANGED <<issued, asked, pc, i, status>>
            /\ (status' = "done") => ~unwrapped_failed' ) ]_vars

C10_Witness ==
    /\ task = "update" /\ status = "abort" /\ unwrapped_failed
    /\ ~last.wrapped /\ last.failed /\ Len(issued) = 3 /\ exit_code = 1

====
